---- MODULE Spec2Model ----
(***************************************************************************)
(* The three WebSocket client scripts of the Universe repository           *)
(*   test-create-particle.py        (the two-particle scenario)            *)
(*   test-create-particle-debug.py  (create, then collect responses)       *)
(*   test-ws-simple.py              (the passive listener)                 *)
(* run against the particle-simulation server.  One run of one script is   *)
(* modelled; the server is the environment.                                *)
(***************************************************************************)
EXTENDS Integers, Sequences, FiniteSets, TLC

(* ---------------- bounds of the model ---------------- *)
MaxParticles == 2      \* largest particle count the server reaches
MaxInbox == 2          \* frames buffered on the client side of the socket
MaxFrames == 6         \* frames the server sends during one run
TicksPerSec == 2       \* granularity of the clock

(* ---------------- constants of the scripts ---------------- *)
timeout == 10          \* test-ws-simple.py:20, listen duration in seconds
RecvTimeout == 1       \* wait_for(..., timeout=1), seconds
Attempts == 5          \* range(5) of test-create-particle-debug.py

WaitTicks == RecvTimeout * TicksPerSec
StepBudgetTicks == Attempts * WaitTicks
\* a recv() without a timeout is followed for one tick more than the budget
MaxWait == StepBudgetTicks + 1

NoCount == -1          \* a count variable that is not assigned yet
NoField == "<absent>"  \* a key that the JSON object does not have

VARIABLES
    prog,           \* which script runs: "scenario", "debug", "listener"
    pc,             \* position of the script
    conn,           \* the session of `async with websockets.connect(uri)`
    peer,           \* the server's end: "open" or "closed"
    inbox,          \* frames sent by the server, not yet returned by recv()
    reqs,           \* frames sent by the script, not yet handled by the server
    sentLog,        \* every frame the script sent, in order
    srvCount,       \* particles in the simulation
    srvSent,        \* frames the server has sent in this run
    initial_count, new_count, final_count,
    check1, check2, \* what lines 42-45 and 68-71 printed: "none", "pass", "fail"
    i,              \* loop index of test-create-particle-debug.py
    message_count,  \* test-ws-simple.py
    start_time, now,\* test-ws-simple.py, in ticks
    waited,         \* ticks spent in the current recv()
    summary,        \* count printed by test-ws-simple.py:45, NoCount if not printed
    lastType,       \* the type the listener printed for the last message
    errPrinted,     \* exception printed by test-ws-simple.py:48
    exc,            \* exception that leaves the coroutine, "none" if it returned
    lastOutcome,    \* outcome of the last receive attempt
    stale           \* frames of inbox that the server sent before the script's last send

vars == <<prog, pc, conn, peer, inbox, reqs, sentLog, srvCount, srvSent,
          initial_count, new_count, final_count, check1, check2, i,
          message_count, start_time, now, waited, summary, lastType,
          errPrinted, exc, lastOutcome, stale>>

scenVars == <<initial_count, new_count, final_count, check1, check2>>
lisVars == <<message_count, start_time, now, summary, lastType, errPrinted>>
srvVars == <<peer, inbox, srvCount, srvSent>>

(* ---------------- wire frames ---------------- *)
\* server -> client frames, as the text that recv() returns
Snapshot(n) == [wellFormed |-> TRUE, type |-> "snapshot", particles |-> n]
ErrorFrame == [wellFormed |-> TRUE, type |-> "error", particles |-> NoCount]
EventFrame == [wellFormed |-> TRUE, type |-> "event", particles |-> NoCount]
NoTypeFrame == [wellFormed |-> TRUE, type |-> NoField, particles |-> NoCount]
BadFrame == [wellFormed |-> FALSE, type |-> NoField, particles |-> NoCount]

UnsolicitedFrames == {ErrorFrame, EventFrame, NoTypeFrame, BadFrame}

\* client -> server messages
\* a request of the snapshot under the name of the answer
GetSnapshotMsg_AnswerType == [type |-> "snapshot", payload |-> <<>>]

GetSnapshotMsg == [type |-> "getSnapshot", payload |-> <<>>]
CreateParticleMsg(species, c) ==
    [type |-> "createParticle",
     payload |-> <<[type |-> species, position |-> [x |-> c, y |-> c, z |-> c]]>>]

(* ---------------- json.loads and the accesses to its result ---------------- *)
\* json.loads(response): a dict, or JSONDecodeError
JsonLoads(w) ==
    IF w.wellFormed
    THEN [ok |-> TRUE, type |-> w.type, particles |-> w.particles]
    ELSE [ok |-> FALSE, type |-> NoField, particles |-> NoCount]

\* data['type']: KeyError when the key is absent
HasKeyType(data) == data.type # NoField
\* data.get("type"): None when the key is absent
GetType(data) == IF data.type = NoField THEN "None" ELSE data.type
\* data['payload']['particles']: KeyError when either key is absent
HasParticles(data) == data.particles # NoCount

\* the exception that lines 17-18 (38-39, 64-65) raise on frame w, or "none"
CountError(w) ==
    IF ~JsonLoads(w).ok THEN "JSONDecodeError"
    ELSE IF ~HasParticles(JsonLoads(w)) THEN "KeyError"
    ELSE "none"

\* the comparison of lines 42 and 68
CountCheck(later, baseline) == IF later > baseline THEN "pass" ELSE "fail"

(* ---------------- initial state ---------------- *)
Init ==
    /\ prog \in {"scenario", "debug", "listener"}
    /\ pc = "connect"
    /\ conn = "unopened"
    /\ peer = "open"
    /\ inbox = <<>>
    /\ reqs = <<>>
    /\ sentLog = <<>>
    /\ srvCount = 0
    /\ srvSent = 0
    /\ initial_count = NoCount /\ new_count = NoCount /\ final_count = NoCount
    /\ check1 = "none" /\ check2 = "none"
    /\ i = 0
    /\ message_count = 0
    /\ start_time = 0 /\ now = 0
    /\ waited = 0
    /\ summary = NoCount
    /\ lastType = "none"
    /\ errPrinted = "none"
    /\ exc = "none"
    /\ lastOutcome = "none"
    /\ stale = 0

(* ---------------- the session ---------------- *)
FirstPc == [scenario |-> "s_send1", debug |-> "d_create", listener |-> "l_send"]

\* websockets.connect(uri).__aenter__: the handshake succeeds
Connect ==
    /\ pc = "connect"
    /\ pc' = FirstPc[prog]
    /\ conn' = "open"
    /\ UNCHANGED <<prog, stale, peer, inbox, reqs, sentLog, srvCount, srvSent, scenVars, i,
                   lisVars, waited, exc, lastOutcome>>

\* the handshake fails: the exception leaves asyncio.run, no session exists
ConnectFails ==
    /\ pc = "connect"
    /\ pc' = "exited"
    /\ exc' = "ConnectionError"
    /\ UNCHANGED <<prog, stale, conn, peer, inbox, reqs, sentLog, srvCount, srvSent, scenVars,
                   i, lisVars, waited, lastOutcome>>

\* a session that is closed only when the body returned
SessionAfterExit_HappyPathOnly(c, e) == IF e = "none" THEN "closed" ELSE c

\* the connection state that __aexit__ leaves, whatever exception e is in flight
SessionAfterExit(c, e) == "closed"

\* __aexit__ of `async with`: runs when the body returns or raises
AsyncWithExit ==
    /\ pc = "aexit"
    /\ pc' = "exited"
    /\ conn' = SessionAfterExit(conn, exc)
    /\ UNCHANGED <<prog, stale, peer, inbox, reqs, sentLog, srvCount, srvSent, scenVars, i,
                   lisVars, waited, exc, lastOutcome>>

(* ---------------- the server (environment) ---------------- *)
ServerCanSend == conn = "open" /\ peer = "open" /\ Len(inbox) < MaxInbox /\ srvSent < MaxFrames

\* the server answers getSnapshot with the state of the simulation
ServerAnswerSnapshot ==
    /\ ServerCanSend
    /\ reqs # <<>> /\ Head(reqs).type = "getSnapshot"
    /\ reqs' = Tail(reqs)
    /\ inbox' = Append(inbox, Snapshot(srvCount))
    /\ srvSent' = srvSent + 1
    /\ UNCHANGED <<prog, stale, pc, conn, peer, sentLog, srvCount, scenVars, i, lisVars, waited,
                   exc, lastOutcome>>

\* the server applies createParticle
ServerCreate ==
    /\ conn = "open" /\ peer = "open"
    /\ reqs # <<>> /\ Head(reqs).type = "createParticle"
    /\ srvCount < MaxParticles
    /\ reqs' = Tail(reqs)
    /\ srvCount' = srvCount + 1
    /\ UNCHANGED <<prog, stale, pc, conn, peer, inbox, sentLog, srvSent, scenVars, i, lisVars,
                   waited, exc, lastOutcome>>

\* the server rejects createParticle with an error frame
ServerReject ==
    /\ ServerCanSend
    /\ reqs # <<>> /\ Head(reqs).type = "createParticle"
    /\ reqs' = Tail(reqs)
    /\ inbox' = Append(inbox, ErrorFrame)
    /\ srvSent' = srvSent + 1
    /\ UNCHANGED <<prog, stale, pc, conn, peer, sentLog, srvCount, scenVars, i, lisVars, waited,
                   exc, lastOutcome>>

\* a periodic snapshot that no request asked for
ServerBroadcast ==
    /\ ServerCanSend
    /\ inbox' = Append(inbox, Snapshot(srvCount))
    /\ srvSent' = srvSent + 1
    /\ UNCHANGED <<prog, stale, pc, conn, peer, reqs, sentLog, srvCount, scenVars, i, lisVars,
                   waited, exc, lastOutcome>>

\* any other frame: an error, an event of another type, a frame that is not an envelope
ServerEmit ==
    /\ ServerCanSend
    /\ \E f \in UnsolicitedFrames : inbox' = Append(inbox, f)
    /\ srvSent' = srvSent + 1
    /\ UNCHANGED <<prog, stale, pc, conn, peer, reqs, sentLog, srvCount, scenVars, i, lisVars,
                   waited, exc, lastOutcome>>

\* the server closes the connection
ServerClose ==
    /\ conn = "open" /\ peer = "open"
    /\ peer' = "closed"
    /\ UNCHANGED <<prog, stale, pc, conn, inbox, reqs, sentLog, srvCount, srvSent, scenVars, i,
                   lisVars, waited, exc, lastOutcome>>

Server ==
    \/ ServerAnswerSnapshot \/ ServerCreate \/ ServerReject
    \/ ServerBroadcast \/ ServerEmit \/ ServerClose

(* ---------------- steps shared by the scripts ---------------- *)
\* await websocket.send(json.dumps(msg)): ConnectionClosed once the peer has closed
DoSend(msg, nextPc) ==
    IF peer = "open"
    THEN /\ reqs' = Append(reqs, msg)
         /\ sentLog' = Append(sentLog, msg)
         /\ pc' = nextPc
         /\ exc' = exc
         /\ stale' = Len(inbox)
    ELSE /\ pc' = "aexit"
         /\ exc' = "ConnectionClosed"
         /\ UNCHANGED <<reqs, sentLog, stale>>

\* recv() returns the oldest frame: one frame fewer predates the last send
StaleAfterRecv == IF stale > 0 THEN stale - 1 ELSE 0

\* recv() has a frame to return
FrameReady == inbox # <<>>
\* recv() raises ConnectionClosed: the peer closed and the buffer is drained
SeesClosed == inbox = <<>> /\ peer = "closed"
\* recv() stays suspended
StillWaiting == inbox = <<>> /\ peer = "open"

\* the outcome of a receive attempt that returned frame w
FrameOutcome(w) == IF JsonLoads(w).ok THEN "Message" ELSE "Malformed"

SuspendedPcs == {"s_recv1", "s_sleep1", "s_recv2", "s_sleep2", "s_recv3",
                 "d_recv", "l_recv"}

\* the task is cancelled while suspended: CancelledError is raised at the await
Cancel ==
    /\ conn = "open"
    /\ pc \in SuspendedPcs
    /\ pc' = "aexit"
    /\ exc' = "CancelledError"
    /\ waited' = 0
    /\ UNCHANGED <<prog, stale, conn, srvVars, reqs, sentLog, scenVars, i, lisVars, lastOutcome>>

(* ---------------- test-create-particle.py ---------------- *)
ScenarioRecvPcs == {"s_recv1", "s_recv2", "s_recv3"}

\* line 15
s_send1 ==
    /\ pc = "s_send1"
    /\ DoSend(GetSnapshotMsg, "s_recv1")
    /\ UNCHANGED <<prog, conn, srvVars, scenVars, i, lisVars, waited, lastOutcome>>

\* recv() of lines 16, 37, 63 has no timeout: the script stays suspended
s_wait ==
    /\ pc \in ScenarioRecvPcs
    /\ StillWaiting
    /\ waited < MaxWait
    /\ waited' = waited + 1
    /\ UNCHANGED <<prog, stale, pc, conn, srvVars, reqs, sentLog, scenVars, i, lisVars, exc,
                   lastOutcome>>

\* recv() of the scenario raises ConnectionClosed
s_closed ==
    /\ pc \in ScenarioRecvPcs
    /\ SeesClosed
    /\ pc' = "aexit"
    /\ exc' = "ConnectionClosed"
    /\ lastOutcome' = "Closed"
    /\ waited' = 0
    /\ UNCHANGED <<prog, stale, conn, srvVars, reqs, sentLog, scenVars, i, lisVars>>

\* lines 16-19
s_recv1 ==
    /\ pc = "s_recv1"
    /\ FrameReady
    /\ LET w == Head(inbox) IN
       /\ inbox' = Tail(inbox)
       /\ lastOutcome' = FrameOutcome(w)
       /\ IF CountError(w) = "none"
          THEN /\ initial_count' = JsonLoads(w).particles
               /\ pc' = "s_create1"
               /\ exc' = exc
          ELSE /\ pc' = "aexit"
               /\ exc' = CountError(w)
               /\ UNCHANGED initial_count
    /\ waited' = 0
    /\ stale' = StaleAfterRecv
    /\ UNCHANGED <<prog, conn, peer, srvCount, srvSent, reqs, sentLog, new_count,
                   final_count, check1, check2, i, lisVars>>

\* lines 22-30
s_create1 ==
    /\ pc = "s_create1"
    /\ DoSend(CreateParticleMsg("proton", 5), "s_sleep1")
    /\ UNCHANGED <<prog, conn, srvVars, scenVars, i, lisVars, waited, lastOutcome>>

\* line 33
s_sleep1 ==
    /\ pc = "s_sleep1"
    /\ pc' = "s_send2"
    /\ UNCHANGED <<prog, stale, conn, srvVars, reqs, sentLog, scenVars, i, lisVars, waited, exc,
                   lastOutcome>>

\* line 36
s_send2 ==
    /\ pc = "s_send2"
    /\ DoSend(GetSnapshotMsg, "s_recv2")
    /\ UNCHANGED <<prog, conn, srvVars, scenVars, i, lisVars, waited, lastOutcome>>

\* the baseline of the first check (line 42)
FirstBaseline == initial_count

\* where the script goes after the first check (lines 42-48)
AfterFirstCheck(result) == "s_create2"

\* lines 37-45
s_recv2 ==
    /\ pc = "s_recv2"
    /\ FrameReady
    /\ LET w == Head(inbox) IN
       /\ inbox' = Tail(inbox)
       /\ lastOutcome' = FrameOutcome(w)
       /\ IF CountError(w) = "none"
          THEN /\ new_count' = JsonLoads(w).particles
               /\ check1' = CountCheck(JsonLoads(w).particles, FirstBaseline)
               /\ pc' = AfterFirstCheck(CountCheck(JsonLoads(w).particles, FirstBaseline))
               /\ exc' = exc
          ELSE /\ pc' = "aexit"
               /\ exc' = CountError(w)
               /\ UNCHANGED <<new_count, check1>>
    /\ waited' = 0
    /\ stale' = StaleAfterRecv
    /\ UNCHANGED <<prog, conn, peer, srvCount, srvSent, reqs, sentLog, initial_count,
                   final_count, check2, i, lisVars>>

\* lines 47-56
s_create2 ==
    /\ pc = "s_create2"
    /\ DoSend(CreateParticleMsg("neutron", -5), "s_sleep2")
    /\ UNCHANGED <<prog, conn, srvVars, scenVars, i, lisVars, waited, lastOutcome>>

\* line 59
s_sleep2 ==
    /\ pc = "s_sleep2"
    /\ pc' = "s_send3"
    /\ UNCHANGED <<prog, stale, conn, srvVars, reqs, sentLog, scenVars, i, lisVars, waited, exc,
                   lastOutcome>>

\* line 62
s_send3 ==
    /\ pc = "s_send3"
    /\ DoSend(GetSnapshotMsg, "s_recv3")
    /\ UNCHANGED <<prog, conn, srvVars, scenVars, i, lisVars, waited, lastOutcome>>

\* the second check compared with the initial count
SecondBaseline_Initial == initial_count

\* the baseline of the second check (line 68)
SecondBaseline == new_count

\* lines 63-71, then the body of `async with` ends
s_recv3 ==
    /\ pc = "s_recv3"
    /\ FrameReady
    /\ LET w == Head(inbox) IN
       /\ inbox' = Tail(inbox)
       /\ lastOutcome' = FrameOutcome(w)
       /\ pc' = "aexit"
       /\ IF CountError(w) = "none"
          THEN /\ final_count' = JsonLoads(w).particles
               /\ check2' = CountCheck(JsonLoads(w).particles, SecondBaseline)
               /\ exc' = exc
          ELSE /\ exc' = CountError(w)
               /\ UNCHANGED <<final_count, check2>>
    /\ waited' = 0
    /\ stale' = StaleAfterRecv
    /\ UNCHANGED <<prog, conn, peer, srvCount, srvSent, reqs, sentLog, initial_count,
                   new_count, check1, i, lisVars>>

Scenario ==
    \/ s_send1 \/ s_wait \/ s_closed \/ s_recv1 \/ s_create1 \/ s_sleep1
    \/ s_send2 \/ s_recv2 \/ s_create2 \/ s_sleep2 \/ s_send3 \/ s_recv3

(* ---------------- test-create-particle-debug.py ---------------- *)
\* lines 15-24
d_create ==
    /\ pc = "d_create"
    /\ DoSend(CreateParticleMsg("proton", 5), "d_recv")
    /\ UNCHANGED <<prog, conn, srvVars, scenVars, i, lisVars, waited, lastOutcome>>

\* line 30: wait_for(websocket.recv(), timeout=1) is suspended
d_wait ==
    /\ pc = "d_recv"
    /\ StillWaiting
    /\ waited < WaitTicks
    /\ waited' = waited + 1
    /\ UNCHANGED <<prog, stale, pc, conn, srvVars, reqs, sentLog, scenVars, i, lisVars, exc,
                   lastOutcome>>

\* a timeout caught inside the loop body: the next attempt follows
AfterDebugTimeout_Continues == "d_recv"

\* line 37 is outside the for loop: the first TimeoutError ends the collection
AfterDebugTimeout == "aexit"

\* lines 30, 37-38: TimeoutError leaves the for loop, "No more messages"
d_timeout ==
    /\ pc = "d_recv"
    /\ waited = WaitTicks
    /\ pc' = AfterDebugTimeout
    /\ lastOutcome' = "TimedOut"
    /\ waited' = 0
    /\ UNCHANGED <<prog, stale, conn, srvVars, reqs, sentLog, scenVars, i, lisVars, exc>>

\* line 30: ConnectionClosed is not caught by `except asyncio.TimeoutError`
d_closed ==
    /\ pc = "d_recv"
    /\ SeesClosed
    /\ pc' = "aexit"
    /\ exc' = "ConnectionClosed"
    /\ lastOutcome' = "Closed"
    /\ waited' = 0
    /\ UNCHANGED <<prog, stale, conn, srvVars, reqs, sentLog, scenVars, i, lisVars>>

\* the exception that lines 31-36 raise on frame w, or "none"
DebugError(w) ==
    IF ~JsonLoads(w).ok THEN "JSONDecodeError"
    ELSE IF ~HasKeyType(JsonLoads(w)) THEN "KeyError"
    ELSE IF JsonLoads(w).type = "snapshot" /\ ~HasParticles(JsonLoads(w)) THEN "KeyError"
    ELSE "none"

\* line 29: range(5) has a k-th element (counted from 0)
MoreAttempts(k) == k < Attempts

\* lines 29-36: one iteration of `for i in range(5)` that received a frame
d_recv ==
    /\ pc = "d_recv"
    /\ FrameReady
    /\ LET w == Head(inbox) IN
       /\ inbox' = Tail(inbox)
       /\ lastOutcome' = FrameOutcome(w)
       /\ IF DebugError(w) = "none"
          THEN /\ lastType' = JsonLoads(w).type
               /\ i' = i + 1
               /\ pc' = IF MoreAttempts(i + 1) THEN "d_recv" ELSE "aexit"
               /\ exc' = exc
          ELSE /\ pc' = "aexit"
               /\ exc' = DebugError(w)
               /\ UNCHANGED <<lastType, i>>
    /\ waited' = 0
    /\ stale' = StaleAfterRecv
    /\ UNCHANGED <<prog, conn, peer, srvCount, srvSent, reqs, sentLog, scenVars,
                   message_count, start_time, now, summary, errPrinted>>

Debug == d_create \/ d_wait \/ d_timeout \/ d_closed \/ d_recv

(* ---------------- test-ws-simple.py ---------------- *)
\* lines 15-23: the send is outside the try block
l_send ==
    /\ pc = "l_send"
    /\ DoSend(GetSnapshotMsg, "l_check")
    /\ IF peer = "open"
       THEN start_time' = now /\ message_count' = 0
       ELSE UNCHANGED <<start_time, message_count>>
    /\ UNCHANGED <<prog, conn, srvVars, scenVars, i, now, summary, lastType, errPrinted,
                   waited, lastOutcome>>

\* (datetime.now() - start_time).seconds: the whole seconds of the difference
Seconds(ticks) == ticks \div TicksPerSec

\* a loop that also runs while the whole seconds equal the duration
LoopCondition_Inclusive(t, start) == Seconds(t - start) <= timeout

\* line 25: the loop condition
LoopCondition(t, start) == Seconds(t - start) < timeout

\* line 25, and line 45 when the loop ends
l_check ==
    /\ pc = "l_check"
    /\ IF LoopCondition(now, start_time)
       THEN /\ pc' = "l_recv"
            /\ UNCHANGED summary
       ELSE /\ pc' = "aexit"
            /\ summary' = message_count
    /\ waited' = 0
    /\ UNCHANGED <<prog, stale, conn, srvVars, reqs, sentLog, scenVars, i, message_count,
                   start_time, now, lastType, errPrinted, exc, lastOutcome>>

\* line 27: wait_for(websocket.recv(), timeout=1) is suspended, the clock advances
l_wait ==
    /\ pc = "l_recv"
    /\ StillWaiting
    /\ waited < WaitTicks
    /\ waited' = waited + 1
    /\ now' = now + 1
    /\ UNCHANGED <<prog, stale, pc, conn, srvVars, reqs, sentLog, scenVars, i, message_count,
                   start_time, summary, lastType, errPrinted, exc, lastOutcome>>

\* a timeout that starts the next attempt without looking at the clock
AfterListenTimeout_Retry == "l_recv"

\* a timeout that leaves the loop, as in test-create-particle-debug.py
AfterListenTimeout_Leaves == "aexit"

\* where `except asyncio.TimeoutError` of lines 42-43 continues
AfterListenTimeout == "l_check"

\* lines 27, 42-43
l_timeout ==
    /\ pc = "l_recv"
    /\ waited = WaitTicks
    /\ pc' = AfterListenTimeout
    /\ lastOutcome' = "TimedOut"
    /\ waited' = 0
    /\ UNCHANGED <<prog, stale, conn, srvVars, reqs, sentLog, scenVars, i, lisVars, exc>>

\* lines 27, 47-48: ConnectionClosed is caught by `except Exception`, the loop is left
l_closed ==
    /\ pc = "l_recv"
    /\ SeesClosed
    /\ pc' = "aexit"
    /\ errPrinted' = "ConnectionClosed"
    /\ lastOutcome' = "Closed"
    /\ waited' = 0
    /\ UNCHANGED <<prog, stale, conn, srvVars, reqs, sentLog, scenVars, i, message_count,
                   start_time, now, summary, lastType, exc>>

\* a count of the snapshots only
NextCount_SnapshotsOnly(count, data) == IF data.type = "snapshot" THEN count + 1 ELSE count

\* line 29: every decoded frame is counted, before its type is looked at
NextCount(count, data) == count + 1

\* lines 27-40 (47-48 when json.loads raises)
l_recv ==
    /\ pc = "l_recv"
    /\ FrameReady
    /\ LET w == Head(inbox) IN
       /\ inbox' = Tail(inbox)
       /\ lastOutcome' = FrameOutcome(w)
       /\ IF JsonLoads(w).ok
          THEN /\ message_count' = NextCount(message_count, JsonLoads(w))
               /\ lastType' = GetType(JsonLoads(w))
               /\ pc' = "l_check"
               /\ UNCHANGED errPrinted
          ELSE /\ pc' = "aexit"
               /\ errPrinted' = "JSONDecodeError"
               /\ UNCHANGED <<message_count, lastType>>
    /\ waited' = 0
    /\ stale' = StaleAfterRecv
    /\ UNCHANGED <<prog, conn, peer, srvCount, srvSent, reqs, sentLog, scenVars, i,
                   start_time, now, summary, exc>>

Listener == l_send \/ l_check \/ l_wait \/ l_timeout \/ l_closed \/ l_recv

(* ---------------- specification ---------------- *)
Client == Connect \/ AsyncWithExit \/ Scenario \/ Debug \/ Listener

Next == Client \/ ConnectFails \/ Cancel \/ Server

Spec == Init /\ [][Next]_vars

\* the event loop runs the script whenever it can take a step; the server and
\* cancellation are under no obligation
FairSpec == Spec /\ WF_vars(Client)

\* one run of test-create-particle-debug.py alone, scheduled the same way
InitDebug == Init /\ prog = "debug"

ClientDebug == Connect \/ AsyncWithExit \/ Debug

\* the script sends no getSnapshot, so the server has none to answer
ServerDebug == ServerCreate \/ ServerReject \/ ServerBroadcast \/ ServerEmit \/ ServerClose

NextDebug == ClientDebug \/ ConnectFails \/ Cancel \/ ServerDebug

DebugFairSpec == InitDebug /\ [][NextDebug]_vars /\ WF_vars(ClientDebug)

TypeOK ==
    /\ prog \in {"scenario", "debug", "listener"}
    /\ conn \in {"unopened", "open", "closed"}
    /\ peer \in {"open", "closed"}
    /\ Len(inbox) <= MaxInbox
    /\ srvCount \in 0..MaxParticles
    /\ srvSent \in 0..MaxFrames
    /\ i \in 0..Attempts
    /\ message_count \in 0..MaxFrames
    /\ waited \in 0..MaxWait

(* ---------------- properties ---------------- *)
SentMsgs == {sentLog[k] : k \in 1..Len(sentLog)}

\* C1: once a step of the scenario has failed no later step executes: when the
\* first count check failed, the createParticle for the neutron is never sent.
C1_FailFast ==
    (prog = "scenario" /\ check1 = "fail") => CreateParticleMsg("neutron", -5) \notin SentMsgs

\* C2: every run of the scenario ends, whatever the server does.
C2_RunEnds == (prog = "scenario") ~> (pc = "exited")

\* C3: a receive of the scenario never stays suspended longer than the step
\* budget (the per-attempt wait times the attempts).
C3_BoundedWait ==
    (prog = "scenario" /\ pc \in ScenarioRecvPcs) => waited <= StepBudgetTicks

\* C4: no run that has ended has its WebSocket session still open.
C4_SessionClosed == (pc = "exited") => conn # "open"

C4_Witness == pc = "exited" /\ conn = "closed" /\ exc = "CancelledError"

\* C5: the count read after createParticle(proton), the settling wait and
\* getSnapshot is strictly greater than the baseline count.
C5_CountIncreases ==
    (prog = "scenario" /\ new_count # NoCount) => new_count > initial_count

\* C6: each of the two checks succeeds exactly when the later count is strictly
\* greater than its own baseline: the initial count for the first check, the
\* count read after the first creation for the second.
C6_OwnBaseline ==
    /\ check1 # "none" => (check1 = "pass" <=> new_count > initial_count)
    /\ check2 # "none" => (check2 = "pass" <=> final_count > new_count)

C6_Witness ==
    /\ check1 = "pass" /\ check2 = "fail"
    /\ final_count > initial_count /\ final_count = new_count

\* C7: a listener run that has ended has printed its summary, also when the loop
\* ended early.
C7_SummaryAlways ==
    (prog = "listener" /\ pc = "exited" /\ conn = "closed" /\ exc = "none")
        => summary # NoCount

\* C8: against a server that sends nothing and keeps the connection open, the
\* listener ends with a summary of 0 messages after at least the listen
\* duration and less than the duration plus one per-attempt wait.
C8_SilentServer ==
    (/\ prog = "listener" /\ pc \in {"aexit", "exited"}
     /\ srvSent = 0 /\ lastOutcome # "Closed" /\ exc = "none")
        => /\ summary = 0
           /\ now - start_time >= timeout * TicksPerSec
           /\ now - start_time < (timeout + RecvTimeout) * TicksPerSec

C8_Witness ==
    /\ prog = "listener" /\ pc = "exited" /\ srvSent = 0 /\ summary = 0
    /\ lastOutcome = "TimedOut"

\* a receive attempt with a timeout ends, at its deadline, with no frame
TimedOutStep(at) ==
    /\ pc = at /\ waited = WaitTicks
    /\ lastOutcome' = "TimedOut"
    /\ inbox' = inbox /\ exc' = exc
    /\ (pc' # pc \/ waited' # waited)

\* a receive attempt ends because the connection is closed
ClosedStep(at) == pc = at /\ lastOutcome' = "Closed"

\* C9: a receive attempt that times out is no error and does not hang; the
\* listener continues its loop with the message count unchanged, the response
\* collection ends normally; a closed connection takes another path.
C9_TimedOutContinues ==
    [][/\ TimedOutStep("l_recv") =>
            /\ pc' = "l_check" /\ message_count' = message_count
            /\ errPrinted' = errPrinted /\ exc' = "none"
       /\ TimedOutStep("d_recv") => (pc' = "aexit" /\ exc' = "none")
       /\ ClosedStep("l_recv") => (pc' = "aexit" /\ errPrinted' = "ConnectionClosed")
       /\ ClosedStep("d_recv") => (pc' = "aexit" /\ exc' = "ConnectionClosed")
       /\ pc' \in {"l_recv", "d_recv"} => waited' <= WaitTicks]_vars

C9_Witness ==
    /\ prog = "listener" /\ pc = "l_recv" /\ lastOutcome = "TimedOut"
    /\ message_count > 0 /\ errPrinted = "none"

\* a frame that is valid JSON and has a `type` field
IsEnvelope(w) == w.wellFormed /\ w.type # NoField

\* C10: a frame that is not valid JSON or lacks `type` is a decode failure: the
\* listener neither counts it nor classifies it.
C10_NoTypeRejected ==
    [][(pc = "l_recv" /\ inbox # <<>> /\ inbox' = Tail(inbox) /\ ~IsEnvelope(Head(inbox)))
         => /\ lastOutcome' = "Malformed"
            /\ message_count' = message_count
            /\ lastType' = lastType]_vars

\* C11: a frame that is not a usable snapshot is reported as a failure of the
\* step that received it: no JSONDecodeError or KeyError leaves the run.
C11_NoUnhandledError ==
    (prog \in {"scenario", "debug"}) => exc \notin {"JSONDecodeError", "KeyError"}

\* C12: the frame whose count the scenario compares with its baseline was sent
\* by the server after the getSnapshot of that step was sent, never before.
C12_FreshSnapshot ==
    [][(\/ pc = "s_recv2" /\ new_count' # new_count
        \/ pc = "s_recv3" /\ final_count' # final_count) => stale = 0]_vars

\* the response collection has given up on a receive attempt that timed out
GaveUp ==
    /\ prog = "debug" /\ pc \in {"aexit", "exited"}
    /\ lastOutcome = "TimedOut" /\ exc = "none"

\* C13 as stated: the response collection gives up only when all of its
\* attempts are used, so only the last attempt can end it by timing out.
C13_GivesUpAtBudget == GaveUp => i + 1 >= Attempts

\* C13 as amended: the response collection receives at most 5 frames, no
\* attempt waits longer than the per-attempt wait, the first attempt that
\* times out ends the collection, whatever is left of the 5 attempts, and the
\* run always ends.
C13_GivesUpAtFirstTimeout ==
    /\ [][/\ i' <= 5
          /\ pc' = "d_recv" => (i' < 5 /\ waited' <= WaitTicks)
          /\ TimedOutStep("d_recv") => (pc' = "aexit" /\ i' = i /\ inbox' = inbox)
          /\ (pc = "d_recv" /\ pc' = "aexit" /\ exc' = "none")
               => (lastOutcome' = "TimedOut" \/ i' = 5)]_vars
    /\ <>(pc = "exited")

C13_Witness == GaveUp /\ pc = "exited" /\ i = 1 /\ inbox # <<>>

\* the listener takes a frame that json.loads decodes off the socket
DecodedStep ==
    /\ pc = "l_recv" /\ inbox # <<>> /\ inbox' = Tail(inbox)
    /\ JsonLoads(Head(inbox)).ok

\* C14: while the listener is in its loop, message_count is the number of
\* frames that have left the socket (all of them decoded), whatever their type;
\* a decoded frame of any type is counted once and the loop goes on without an
\* error.
C14_CountsEveryType ==
    [][/\ (prog = "listener" /\ pc' \in {"l_check", "l_recv"})
            => message_count' = srvSent' - Len(inbox')
       /\ DecodedStep =>
            /\ message_count' = message_count + 1
            /\ pc' = "l_check" /\ errPrinted' = "none" /\ exc' = "none"]_vars

C14_Witness ==
    /\ prog = "listener" /\ pc = "l_check" /\ lastType = "event"
    /\ message_count = 3 /\ errPrinted = "none"

\* the listener starts a receive attempt
AttemptStarts == pc' = "l_recv" /\ waited' = 0 /\ (pc # "l_recv" \/ waited # 0)

\* C15: every receive attempt of the listener starts from the loop condition,
\* with less than the configured duration elapsed; every attempt ends within
\* the per-attempt wait and leads back to the loop condition or out of the
\* loop; so the loop is left before the duration plus one per-attempt wait has
\* elapsed, and the summary is printed no earlier than the duration.
C15_ListenDeadline ==
    [][/\ AttemptStarts =>
            (pc = "l_check" /\ now - start_time < timeout * TicksPerSec)
       /\ (pc = "l_recv" /\ pc' # "l_recv") => pc' \in {"l_check", "aexit"}
       /\ pc' = "l_recv" => waited' <= RecvTimeout * TicksPerSec
       /\ (prog = "listener" /\ pc' \in {"l_check", "l_recv"})
            => now' - start_time' < (timeout + RecvTimeout) * TicksPerSec
       /\ (pc = "l_check" /\ pc' = "aexit")
            => /\ summary' = message_count
               /\ now - start_time >= timeout * TicksPerSec]_vars

C15_Witness ==
    /\ prog = "listener" /\ pc = "exited" /\ summary = 3
    /\ now - start_time > timeout * TicksPerSec
    /\ lastOutcome = "Message"

\* a getSnapshot envelope without payload, or a createParticle envelope whose
\* payload holds a species and a position with x, y and z
WellFormedRequest(m) ==
    /\ DOMAIN m = {"type", "payload"}
    /\ \/ m.type = "getSnapshot" /\ m.payload = <<>>
       \/ /\ m.type = "createParticle"
          /\ Len(m.payload) = 1
          /\ DOMAIN m.payload[1] = {"type", "position"}
          /\ m.payload[1].type \in {"proton", "neutron"}
          /\ DOMAIN m.payload[1].position = {"x", "y", "z"}

\* C16: every frame a script sends is a getSnapshot without payload or a
\* createParticle with species and position; every send puts exactly one frame
\* on the wire; the listener has sent exactly one getSnapshot when its loop
\* starts and sends nothing more.
C16_OnlyTwoRequests ==
    /\ \A k \in 1..Len(sentLog) : WellFormedRequest(sentLog[k])
    /\ Len(reqs) <= Len(sentLog)
    /\ \A k \in 1..Len(reqs) : reqs[k] = sentLog[Len(sentLog) - Len(reqs) + k]
    /\ prog = "listener" =>
          /\ Len(sentLog) <= 1
          /\ pc \in {"l_check", "l_recv"} =>
                (Len(sentLog) = 1 /\ sentLog[1].type = "getSnapshot")
    /\ prog = "debug" => Len(sentLog) <= 1
    /\ prog = "scenario" => Len(sentLog) <= 5

C16_Witness ==
    /\ prog = "scenario" /\ pc = "exited" /\ Len(sentLog) = 5
    /\ sentLog[5].type = "getSnapshot" /\ sentLog[4].payload[1].type = "neutron"

====
